---- MODULE Spec2Model ----
(***************************************************************************)
(* Model of the cellsite antenna resolvers:                                *)
(*   - the in-memory grid backend  (tests/celldb/dummydb.py)               *)
(*   - the relational backend      (celldb/pgdatabase.py)                  *)
(*   - the duplicate policies      (celldb/duplicate_policy.py)            *)
(*   - the triage of measurement pairs (colocation/triage.py)              *)
(*   - the pairing of measurements (colocation/measurement_pair.py)        *)
(*   - the splits with background cells (colocation/datasplits.py)         *)
(*   - the measurement set of cellscanner                                  *)
(*                          (cellscanner/cellscanner_measurements.py)      *)
(* Optional values (Python None, SQL NULL) are sequences of length 0 or 1. *)
(***************************************************************************)
EXTENDS Integers, Sequences, FiniteSets, TLC

None == << >>

Some(v) == << v >>

IsNone(o) == o = << >>

Val(o) == o[1]

Min2(a, b) == IF a <= b THEN a ELSE b

Max2(a, b) == IF a >= b THEN a ELSE b

Range(s) == { s[i] : i \in DOMAIN s }

\* s[:n] of Python for n >= 0
Take(s, n) == SubSeq(s, 1, Min2(n, Len(s)))

VARIABLES
    db,       \* the dummy database: [nx, ny, per] (positions and antennas per position)
    gcache,   \* lru_cache of AntennaDummyDatabase.search: arguments -> result
    glast,    \* the last search call on the grid backend: [args, result]
    table,    \* the rows of antenna_light
    wfilter,  \* the process's warning filter: "default" or "error"
    aborted,  \* the connection's transaction is in the aborted state
    views,    \* every PgDatabase object built so far; views[1] is the resolver
    last,     \* the last call on the relational backend and its outcome
    origin,   \* how the resolver was constructed: [via, named]
    broken,   \* the connection to the store is lost
    imp,      \* the run of csv_import: batch, position, reports, outcome
    tri,      \* a run of the triage functions: inputs, intervals, pairs yielded
    prs,      \* a run of from_sequential_measurements: measurements, pairs built
    spl,      \* a DataWithBackgroundCells object and the splits it has yielded
    cms       \* a chain of refinements of a CellscannerMeasurementSet

gvars == << db, gcache, glast >>

pgvars == << table, wfilter, aborted, views, last >>

cvars == << origin, broken, imp >>

mvars == << tri, prs, spl, cms >>

vars == << db, gcache, glast, table, wfilter, aborted, views, last, origin, broken, imp,
          tri, prs, spl, cms >>

\* what the functions of one part of the program leave alone
TriageFrame == UNCHANGED << gvars, pgvars, cvars, prs, spl, cms >>

PairingFrame == UNCHANGED << gvars, pgvars, cvars, tri, spl, cms >>

SplitFrame == UNCHANGED << gvars, pgvars, cvars, tri, prs, cms >>

CellscannerFrame == UNCHANGED << gvars, pgvars, cvars, tri, prs, spl >>

(***************************************************************************)
(* Bounds of the model                                                     *)
(***************************************************************************)
MaxGridX == 3

MaxGridY == 2

MaxPerPos == 2

MaxCache == 1

(***************************************************************************)
(* Grid backend: AntennaDummyDatabase                                      *)
(***************************************************************************)
XOffset == 100000

YOffset == 100000

XInterval == 500

YInterval == 500

DefaultCountLimit == 10000

\* eci handed out by eci_iterator to the i-th antenna of position (x, y)
EciAt(d, x, y, i) == (x * d.ny + y) * d.per + i

\* self._antennas[x][y][i]
AntennaAt(d, x, y, i) ==
    [ eci |-> EciAt(d, x, y, i),
      rdx |-> XOffset + x * XInterval,
      rdy |-> YOffset + y * YInterval ]

AllAntennas(d) ==
    { AntennaAt(d, x, y, i) : x \in 0 .. d.nx - 1, y \in 0 .. d.ny - 1, i \in 0 .. d.per - 1 }

\* Squared euclidean distance between two grid points.  Distances are only
\* compared with each other and with non-negative limits, so the model
\* compares squares: sqrt is strictly increasing.
DistSq(x1, y1, x2, y2) == (x2 - x1) * (x2 - x1) + (y2 - y1) * (y2 - y1)

\* dist > distance_limit_m, for limit >= 0
Beyond(dsq, limit) == dsq > limit * limit

\* Python round(num / den): round half to even
RoundHalfEven(num, den) ==
    LET q == num \div den
        r == num % den
    IN  IF 2 * r < den THEN q
        ELSE IF 2 * r > den THEN q + 1
        ELSE IF q % 2 = 0 THEN q ELSE q + 1

\* min(n - 1, max(0, round((c - offset) / interval)))
GridIndex(c, offset, interval, n) ==
    Min2(n - 1, Max2(0, RoundHalfEven(c - offset, interval)))

\* index + np.stack([offsets, -offsets], -1).reshape(-1)[1:], kept within 0 .. n-1
Choices(index, n) ==
    LET raw == [ k \in 1 .. 2 * n - 1 |->
                   index + (IF k % 2 = 0 THEN k \div 2 ELSE 0 - (k \div 2)) ]
        InRange(c) == c >= 0 /\ c < n
    IN  SelectSeq(raw, InRange)

RECURSIVE InsertByDist(_, _)
\* position of e in a list sorted by dist, after the entries that are not larger
InsertByDist(e, s) ==
    IF s = << >> THEN << e >>
    ELSE IF Head(s).dist <= e.dist THEN << Head(s) >> \o InsertByDist(e, Tail(s))
    ELSE << e >> \o s

RECURSIVE SortCandidates(_)
\* sorted(l, key=lambda x: x[0]) : a stable sort by distance
SortCandidates(l) ==
    IF l = << >> THEN << >>
    ELSE InsertByDist(l[Len(l)], SortCandidates(SubSeq(l, 1, Len(l) - 1)))

RECURSIVE Concat(_)
Concat(ss) == IF ss = << >> THEN << >> ELSE Head(ss) \o Concat(Tail(ss))

\* for i in range(self._antennas_per_position): the candidates of one position
\* (every antenna of a position lies at the same distance, so the break on the
\* distance limit leaves the position before any of its antennas is kept)
PositionCandidates(d, a, x, y) ==
    LET dsq == DistSq(a.x, a.y, XOffset + x * XInterval, YOffset + y * YInterval)
        all == [ k \in 1 .. d.per |-> [ dist |-> dsq, ant |-> AntennaAt(d, x, y, k - 1) ] ]
        Kept(c) == a.exclude # Some(c.ant.eci)
    IN  IF ~IsNone(a.limit) /\ Beyond(dsq, Val(a.limit)) THEN << >>
        ELSE SelectSeq(all, Kept)

\* for y in y_choices: every row of a visited column is looked at
ColumnCandidates(d, a, x, yindex) ==
    LET ys == Choices(yindex, d.ny)
    IN  Concat([ k \in 1 .. Len(ys) |-> PositionCandidates(d, a, x, ys[k]) ])

RECURSIVE VisitedColumns(_, _, _, _)
\* for x in x_choices: the loop ends at the first column whose antenna in row
\* y_index is beyond the distance limit
VisitedColumns(d, a, yindex, xs) ==
    IF xs = << >> THEN << >>
    ELSE IF /\ ~IsNone(a.limit)
            /\ Beyond(DistSq(a.x, a.y, XOffset + Head(xs) * XInterval,
                             YOffset + yindex * YInterval), Val(a.limit))
         THEN << >>
         ELSE << Head(xs) >> \o VisitedColumns(d, a, yindex, Tail(xs))

\* sort_candidates(candidates)[:count_limit]
Truncate(s, count) == IF IsNone(count) THEN s ELSE Take(s, Val(count))

\* AntennaDummyDatabase.search without its cache.  distance_lower_limit_m,
\* date, radio, mcc and mnc are accepted and never read.
GridSearchBody(d, a) ==
    LET xindex == GridIndex(a.x, XOffset, XInterval, d.nx)
        yindex == GridIndex(a.y, YOffset, YInterval, d.ny)
        xs     == VisitedColumns(d, a, yindex, Choices(xindex, d.nx))
        cands  == Concat([ k \in 1 .. Len(xs) |-> ColumnCandidates(d, a, xs[k], yindex) ])
    IN  Truncate(SortCandidates(cands), a.count)

\* The exhaustive scan the grid search is compared with: every antenna, the
\* same distance comparison, the excluded one dropped, sorted, truncated.
LinearScanAll(d, a) ==
    { c \in { [ dist |-> DistSq(a.x, a.y, t.rdx, t.rdy), ant |-> t ] : t \in AllAntennas(d) } :
        /\ IsNone(a.limit) \/ ~Beyond(c.dist, Val(a.limit))
        /\ a.exclude # Some(c.ant.eci) }

RECURSIVE SetToSortedSeq(_)
SetToSortedSeq(S) ==
    IF S = {} THEN << >>
    ELSE LET m == CHOOSE c \in S : \A o \in S :
                    \/ c.dist > o.dist
                    \/ (c.dist = o.dist /\ c.ant.eci >= o.ant.eci)
         IN  SetToSortedSeq(S \ {m}) \o << m >>

LinearScan(d, a) == Truncate(SetToSortedSeq(LinearScanAll(d, a)), a.count)

\* Arguments of a search call on the grid backend
GridQueryX == { XOffset - 300, XOffset, XOffset + 250, XOffset + 300, XOffset + 500 }

GridQueryY == { YOffset, YOffset + 200 }

GridLimits == { None, Some(500), Some(1000) }

GridLowerLimits == { None, Some(200) }

GridCounts == { Some(DefaultCountLimit), Some(1) }

GridExcludes == { None, Some(0) }

GridArgs ==
    [ x : GridQueryX, y : GridQueryY, limit : GridLimits, lower : GridLowerLimits,
      count : GridCounts, exclude : GridExcludes ]

NoCall == [ called |-> FALSE ]

GridInit ==
    /\ db \in [ nx : 1 .. MaxGridX, ny : 1 .. MaxGridY, per : 1 .. MaxPerPos ]
    /\ gcache = << >>
    /\ glast = NoCall

\* @lru_cache(maxsize=None) around search: a repeated argument tuple is
\* answered from the cache, a new one is computed and stored.
GridSearch(a) ==
    /\ \/ \E k \in DOMAIN gcache : gcache[k].args = a
       \/ Len(gcache) < MaxCache
    /\ LET hit == { k \in DOMAIN gcache : gcache[k].args = a }
           res == IF hit # {} THEN gcache[CHOOSE k \in hit : TRUE].result
                  ELSE GridSearchBody(db, a)
       IN  /\ gcache' = IF hit # {} THEN gcache
                        ELSE Append(gcache, [ args |-> a, result |-> res ])
           /\ glast' = [ called |-> TRUE, args |-> a, result |-> res, raised |-> FALSE ]
    /\ UNCHANGED db
    /\ UNCHANGED pgvars
    /\ UNCHANGED mvars
    /\ UNCHANGED cvars

\* The list search returned is the list the cache holds: a caller that
\* removes the last element of a result (list.pop()) changes the cache entry.
CallerMutates(k) ==
    /\ gcache[k].result # << >>
    /\ gcache' = [ gcache EXCEPT ![k].result = SubSeq(@, 1, Len(@) - 1) ]
    /\ UNCHANGED << db, glast >>
    /\ UNCHANGED pgvars
    /\ UNCHANGED mvars
    /\ UNCHANGED cvars


(***************************************************************************)
(* Relational backend: the table antenna_light                             *)
(***************************************************************************)
MaxViews == 3

TicksPerDay == 2

MaxTime == 3

\* Centre of the proximity searches of the model (a grid position in metres)
QueryPoint == [ x |-> 155000, y |-> 463000 ]

\* A stored row.  date_start, date_end, radio, lac, ci, eci and azimuth are
\* nullable columns; mcc, mnc and rd are NOT NULL.  Timestamps are ticks.
Row(id, ds, de, radio, lac, ci, eci, dx, dy) ==
    [ id |-> id, date_start |-> ds, date_end |-> de, radio |-> radio,
      mcc |-> Some(204), mnc |-> Some(4), lac |-> lac, ci |-> ci, eci |-> eci,
      x |-> QueryPoint.x + dx, y |-> QueryPoint.y + dy, azimuth |-> Some(120) ]

RowUniverse ==
    { Row(1, Some(1), None,    Some("LTE"), None,    None,    Some(7), 0,   0),
      Row(2, None,    Some(3), Some("LTE"), None,    None,    Some(7), 300, 400),
      Row(3, None,    None,    Some("GSM"), Some(1), Some(0), None,    100, 0),
      Row(4, Some(2), Some(3), None,        Some(1), Some(5), Some(9), 0,   800) }

\* ---- the WHERE clause: a list of strings joined by AND -------------------
\* One element of qwhere is modelled as the conjunction it spells, possibly
\* inside NOT ( ).  An atom is one comparison; "ph" tells whether its value is
\* a %s placeholder (bound from qargs at execute) or written into the text.
AtomEq(col, v)   == [ a |-> "eq", col |-> col, ph |-> FALSE, v |-> v ]

AtomEqParam(col) == [ a |-> "eq", col |-> col, ph |-> TRUE, v |-> 0 ]

\* (date_start is NULL OR %s >= date_start)
AtomSince == [ a |-> "since", col |-> "date_start", ph |-> TRUE, v |-> 0 ]

\* (date_end is NULL OR %s < date_end)
AtomUntil == [ a |-> "until", col |-> "date_end", ph |-> TRUE, v |-> 0 ]

\* ST_DWithin(rd, 'SRID=4326;POINT(x y)', d)
AtomDWithin(x, y, d) ==
    [ a |-> "dwithin", col |-> "rd", ph |-> FALSE, v |-> [ x |-> x, y |-> y, d |-> d ] ]

Clause(neg, atoms) == [ neg |-> neg, atoms |-> atoms ]

\* PostGIS ST_DWithin on planar geometries: true when the distance is at most d
ST_DWithin(row, x, y, d) == DistSq(row.x, row.y, x, y) <= d * d

\* SQL's three truth values
And3(p, q) ==
    IF p = "F" \/ q = "F" THEN "F" ELSE IF p = "U" \/ q = "U" THEN "U" ELSE "T"

Not3(p) == IF p = "T" THEN "F" ELSE IF p = "F" THEN "T" ELSE "U"

Bool3(b) == IF b THEN "T" ELSE "F"

\* an atom on a row; arg is the value bound to its placeholder, if it has one
EvalAtom(atom, arg, row) ==
    IF atom.a = "eq" THEN
        IF IsNone(row[atom.col]) THEN "U"
        ELSE Bool3(Val(row[atom.col]) = (IF atom.ph THEN arg ELSE atom.v))
    ELSE IF atom.a = "since" THEN
        Bool3(IsNone(row.date_start) \/ arg >= Val(row.date_start))
    ELSE IF atom.a = "until" THEN
        Bool3(IsNone(row.date_end) \/ arg < Val(row.date_end))
    ELSE Bool3(ST_DWithin(row, atom.v.x, atom.v.y, atom.v.d))

\* all atoms of the clause list, in the order of the text
Atoms(qwhere) == Concat([ k \in DOMAIN qwhere |-> qwhere[k].atoms ])

Placeholders(atoms) == Cardinality({ k \in DOMAIN atoms : atoms[k].ph })

RECURSIVE EvalAtoms(_, _, _, _, _)
\* the conjunction of atoms[j ..] on a row; the placeholders of these atoms
\* take their values from qargs[off + 1 ..]
EvalAtoms(atoms, j, off, qargs, row) ==
    IF j > Len(atoms) THEN "T"
    ELSE And3(EvalAtom(atoms[j], IF atoms[j].ph THEN qargs[off + 1] ELSE 0, row),
              EvalAtoms(atoms, j + 1, IF atoms[j].ph THEN off + 1 ELSE off, qargs, row))

EvalClause(c, off, qargs, row) ==
    IF c.neg THEN Not3(EvalAtoms(c.atoms, 1, off, qargs, row))
    ELSE EvalAtoms(c.atoms, 1, off, qargs, row)

RECURSIVE EvalClauses(_, _, _, _, _)
EvalClauses(qwhere, k, off, qargs, row) ==
    IF k > Len(qwhere) THEN "T"
    ELSE And3(EvalClause(qwhere[k], off, qargs, row),
              EvalClauses(qwhere, k + 1, off + Placeholders(qwhere[k].atoms), qargs, row))

\* the clause list on a row, with the arguments bound positionally
EvalWhere(qwhere, qargs, row) == EvalClauses(qwhere, 1, 0, qargs, row) = "T"

\* cur.execute(query, qargs): what the driver and the server answer.
\*   - more arguments than %s placeholders, or fewer: the driver's string
\*     formatting fails (TypeError, IndexError), nothing is sent;
\*   - a query sent in an aborted transaction is refused;
\*   - "WHERE" followed by nothing, or an empty conjunct: a syntax error of
\*     the server, which leaves the open transaction aborted.
ExecuteStatus(failed, qwhere, qargs) ==
    IF Len(qargs) > Placeholders(Atoms(qwhere)) THEN "TypeError"
    ELSE IF Len(qargs) < Placeholders(Atoms(qwhere)) THEN "IndexError"
    ELSE IF failed THEN "InFailedSqlTransaction"
    ELSE IF \/ qwhere = << >>
            \/ \E k \in DOMAIN qwhere : qwhere[k].atoms = << >>
         THEN "SyntaxError"
    ELSE "ok"

\* cur.execute on a connection that may be lost: the arguments are formatted
\* by the driver first, then the query is sent
Execute(lost, failed, qwhere, qargs) ==
    IF ExecuteStatus(failed, qwhere, qargs) \in { "TypeError", "IndexError" }
    THEN ExecuteStatus(failed, qwhere, qargs)
    ELSE IF lost THEN "OperationalError"
    ELSE ExecuteStatus(failed, qwhere, qargs)

\* the rows of the table a WHERE clause selects
Selected(tbl, qwhere, qargs) == { r \in tbl : EvalWhere(qwhere, qargs, r) }

(***************************************************************************)
(* Cell identities, antenna records, duplicate policies                    *)
(***************************************************************************)
\* A cell identity: kind is the class (CellGlobalIdentity or LTECell), every
\* other field is optional.
Identity(kind, radio, mcc, mnc, lac, ci, eci) ==
    [ kind |-> kind, radio |-> radio, mcc |-> mcc, mnc |-> mnc,
      lac |-> lac, ci |-> ci, eci |-> eci ]

\* _build_cell_identity_query(ci): the conjunction for one identity.  radio
\* is bound as an argument, the numbers are written into the text.
IdentityAtoms(ci) ==
    (IF IsNone(ci.radio) THEN << >> ELSE << AtomEqParam("radio") >>)
    \o (IF IsNone(ci.mcc) THEN << >> ELSE << AtomEq("mcc", Val(ci.mcc)) >>)
    \o (IF IsNone(ci.mnc) THEN << >> ELSE << AtomEq("mnc", Val(ci.mnc)) >>)
    \o (IF ci.kind = "CGI"
        THEN (IF IsNone(ci.lac) THEN << >> ELSE << AtomEq("lac", Val(ci.lac)) >>)
             \o (IF IsNone(ci.ci) THEN << >> ELSE << AtomEq("ci", Val(ci.ci)) >>)
        ELSE (IF IsNone(ci.eci) THEN << >> ELSE << AtomEq("eci", Val(ci.eci)) >>))

IdentityArgs(ci) == IF IsNone(ci.radio) THEN << >> ELSE << Val(ci.radio) >>

\* isinstance(ci, CellGlobalIdentity) / isinstance(ci, LTECell) / else raise
IdentitySupported(ci) == ci.kind \in { "CGI", "LTE" }

\* the 11 columns get() selects, the 10 columns __iter__ selects (no eci)
GetColumns ==
    << "date_start", "date_end", "radio", "mcc", "mnc", "lac", "ci", "eci", "x", "y", "azimuth" >>

IterColumns ==
    << "date_start", "date_end", "radio", "mcc", "mnc", "lac", "ci", "x", "y", "azimuth" >>

Project(row, cols) == [ k \in DOMAIN cols |-> row[cols[k]] ]

\* CellIdentity.create(radio, mcc, mnc, lac, ci=, eci=) as _build_antenna uses it
CellIdentityCreate(radio, mcc, mnc, lac, ci, eci) ==
    [ radio |-> radio, mcc |-> mcc, mnc |-> mnc, lac |-> lac, ci |-> ci, eci |-> eci ]

\* _build_antenna(row): unpacks exactly 11 values, then builds the record
BuildAntenna(t) ==
    IF Len(t) # 11 THEN [ exc |-> Some("ValueError") ]
    ELSE IF ~(t[3] \in { None, Some("GSM"), Some("UMTS"), Some("LTE") })
         THEN [ exc |-> Some("ValueError") ]
    ELSE [ exc |-> None,
           props |->
             [ wgs84 |-> [ x |-> t[9], y |-> t[10] ],
               azimuth_degrees |-> t[11],
               cell |-> IF t[3] \in { Some("GSM"), Some("UMTS") }
                        THEN CellIdentityCreate(t[3], t[4], t[5], t[6], t[7], None)
                        ELSE IF t[3] = Some("LTE")
                        THEN CellIdentityCreate(t[3], t[4], t[5], t[6], None, t[8])
                        ELSE CellIdentityCreate(t[3], t[4], t[5], t[6], t[7], t[8]) ] ]

Policies == { "exception", "warn", "take_first", "drop" }

\* warnings.warn(...) under the process's warning filter: "error" turns the
\* warning into an exception (cellscanner's __main__ installs that filter)
WarningsWarn(filter) == IF filter = "error" THEN Some("UserWarning") ELSE None

\* duplicate_policy.exception / warn / take_first / drop on results, whose
\* first element is `first`
OnDuplicate(policy, filter, first) ==
    IF policy = "exception" THEN [ exc |-> Some("ValueError"), value |-> None, warned |-> FALSE ]
    ELSE IF policy = "warn" THEN
        IF ~IsNone(WarningsWarn(filter))
        THEN [ exc |-> WarningsWarn(filter), value |-> None, warned |-> TRUE ]
        ELSE [ exc |-> None, value |-> Some(first), warned |-> TRUE ]
    ELSE IF policy = "take_first" THEN [ exc |-> None, value |-> Some(first), warned |-> FALSE ]
    ELSE [ exc |-> None, value |-> None, warned |-> FALSE ]

(***************************************************************************)
(* Relational backend: PgDatabase                                          *)
(***************************************************************************)
OrderNone == [ kind |-> "none", x |-> 0, y |-> 0 ]

\* ORDER BY RANDOM()
OrderRandom == [ kind |-> "random", x |-> 0, y |-> 0 ]

\* ORDER BY ST_Distance(rd, 'SRID=4326;POINT(x y)')
OrderDistance(x, y) == [ kind |-> "distance", x |-> x, y |-> y ]

\* PgDatabase.__init__.  Three fields are not fields of the object: parent
\* records which view the object was derived from (0: built by the caller),
\* result the rows its last __iter__ query returned, yielded the records its
\* current iteration has returned so far.
PgDatabase(con, qwhere, qargs, qorder, count_limit, on_duplicate, parent) ==
    [ con |-> con, qwhere |-> qwhere, qargs |-> qargs, qorder |-> qorder,
      count_limit |-> count_limit, cur |-> None, on_duplicate |-> on_duplicate,
      parent |-> parent, result |-> None, yielded |-> << >> ]

\* the fields search and get read
Frame(view) ==
    [ con |-> view.con, qwhere |-> view.qwhere, qargs |-> view.qargs,
      qorder |-> view.qorder, count_limit |-> view.count_limit,
      on_duplicate |-> view.on_duplicate ]

\* datetime.datetime.combine(date, datetime.datetime.min.time()): the time of
\* day of its first argument is ignored
CombineMinTime(date) == (date \div TicksPerDay) * TicksPerDay

\* isinstance(date, datetime.date) holds for every datetime.datetime
GetDate(date) == CombineMinTime(date)

\* get(): the clause list and the arguments of its query
GetWhere(self, ci) ==
    self.qwhere \o << Clause(FALSE, << AtomSince, AtomUntil >>) >>
                \o << Clause(FALSE, IdentityAtoms(ci)) >>

GetArgs(self, date, ci) ==
    self.qargs \o << GetDate(date), GetDate(date) >> \o IdentityArgs(ci)

\* the tail of get() on the fetched rows: each row becomes a record, then no
\* result, one result, or the duplicate policy on the list headed by `first`
GetOutcome(policy, filter, rows, first) ==
    IF \E r \in rows : ~IsNone(BuildAntenna(Project(r, GetColumns)).exc)
    THEN [ exc |-> Some("ValueError"), value |-> None, warned |-> FALSE ]
    ELSE IF Cardinality(rows) = 0
    THEN [ exc |-> None, value |-> None, warned |-> FALSE ]
    ELSE IF Cardinality(rows) > 1
    THEN OnDuplicate(policy, filter, BuildAntenna(Project(first, GetColumns)).props)
    ELSE [ exc |-> None, value |-> Some(BuildAntenna(Project(first, GetColumns)).props),
           warned |-> FALSE ]

\* ---- search ---------------------------------------------------------------
RadioList(radio) == IF radio.isstr THEN << radio.s >> ELSE radio.items

\* ' OR '.join(['radio = %s']): one placeholder, whatever the number of radios
RadioClause(radio) == Clause(FALSE, << AtomEqParam("radio") >>)

ExcludeList(exclude) == IF exclude.single THEN << exclude.ci >> ELSE exclude.items

SearchWhere(self, a) ==
    self.qwhere
    \o (IF IsNone(a.coords) THEN << >>
        ELSE << Clause(FALSE, << AtomDWithin(Val(a.coords).x, Val(a.coords).y, Val(a.limit)) >>) >>
             \o (IF IsNone(a.lower) THEN << >>
                 ELSE << Clause(TRUE, << AtomDWithin(Val(a.coords).x, Val(a.coords).y,
                                                     Val(a.lower)) >>) >>))
    \o (IF IsNone(a.date) THEN << >>
        ELSE << Clause(FALSE, << AtomSince >>), Clause(FALSE, << AtomUntil >>) >>)
    \o (IF IsNone(a.radio) THEN << >> ELSE << RadioClause(Val(a.radio)) >>)
    \o (IF IsNone(a.mcc) THEN << >> ELSE << Clause(FALSE, << AtomEq("mcc", Val(a.mcc)) >>) >>)
    \o (IF IsNone(a.mnc) THEN << >> ELSE << Clause(FALSE, << AtomEq("mnc", Val(a.mnc)) >>) >>)
    \o (IF IsNone(a.exclude) THEN << >>
        ELSE LET ex == ExcludeList(Val(a.exclude))
             IN  [ k \in DOMAIN ex |-> Clause(TRUE, IdentityAtoms(ex[k])) ])

SearchArgsList(self, a) ==
    self.qargs
    \o (IF IsNone(a.date) THEN << >> ELSE << Val(a.date), Val(a.date) >>)
    \o (IF IsNone(a.radio) THEN << >> ELSE RadioList(Val(a.radio)))
    \o (IF IsNone(a.exclude) THEN << >>
        ELSE LET ex == ExcludeList(Val(a.exclude))
             IN  Concat([ k \in DOMAIN ex |-> IdentityArgs(ex[k]) ]))

\* count_limit if count_limit is not None else self._count_limit
SearchCountLimit(self, a) == IF ~IsNone(a.count) THEN a.count ELSE self.count_limit

SearchOrder(self, a) ==
    IF IsNone(a.random) THEN self.qorder
    ELSE IF Val(a.random) THEN OrderRandom
    ELSE IF ~IsNone(a.coords) THEN OrderDistance(Val(a.coords).x, Val(a.coords).y)
    ELSE self.qorder

\* search appending to the receiver's own lists instead of copies of them
SearchReceiverAliased(self, a) ==
    [ self EXCEPT !.qwhere = SearchWhere(self, a), !.qargs = SearchArgsList(self, a) ]

\* what search leaves in the receiver: it works on copies of the two lists
\* (qwhere = list(self._qwhere), qargs = list(self._qargs))
SearchReceiver(self, a) == self

\* PgDatabase.search: the assertion, then the new view; nothing is executed
Search(self, me, a) ==
    IF ~IsNone(a.coords) /\ IsNone(a.limit)
    THEN [ exc |-> Some("AssertionError"), self |-> self, new |-> None ]
    ELSE IF ~IsNone(a.exclude) /\
            \E k \in DOMAIN ExcludeList(Val(a.exclude)) :
                ~IdentitySupported(ExcludeList(Val(a.exclude))[k])
    THEN [ exc |-> Some("ValueError"), self |-> self, new |-> None ]
    ELSE [ exc |-> None,
           self |-> SearchReceiver(self, a),
           new |-> Some(PgDatabase(self.con, SearchWhere(self, a), SearchArgsList(self, a),
                                   SearchOrder(self, a), SearchCountLimit(self, a),
                                   self.on_duplicate, me)) ]

\* ---- inputs of the model ---------------------------------------------------
DefaultSearch ==
    [ coords |-> None, limit |-> None, lower |-> None, date |-> None, radio |-> None,
      mcc |-> None, mnc |-> None, count |-> Some(DefaultCountLimit),
      random |-> Some(FALSE), exclude |-> None ]

LteCell == Identity("LTE", Some("LTE"), Some(204), Some(4), None, None, Some(7))

GsmCell == Identity("CGI", Some("GSM"), Some(204), Some(4), Some(1), Some(0), None)

UnknownLteCell == Identity("LTE", Some("LTE"), Some(204), Some(4), None, None, Some(999))

GetIdentities == { LteCell, GsmCell, UnknownLteCell }

\* the instants get is asked about: none of them is a midnight of the first day
Dates == 1 .. MaxTime

SearchInputs ==
    { DefaultSearch,
      [ DefaultSearch EXCEPT !.coords = Some(QueryPoint), !.limit = Some(500),
                             !.lower = Some(100) ],
      [ DefaultSearch EXCEPT !.coords = Some(QueryPoint) ],
      [ DefaultSearch EXCEPT !.date = Some(1) ],
      [ DefaultSearch EXCEPT !.radio = Some([ isstr |-> TRUE, s |-> "LTE" ]) ],
      [ DefaultSearch EXCEPT !.radio = Some([ isstr |-> FALSE, items |-> << "LTE", "GSM" >> ]) ],
      [ DefaultSearch EXCEPT !.mcc = Some(204), !.mnc = Some(4), !.count = None,
                             !.random = Some(TRUE),
                             !.exclude = Some([ single |-> FALSE, items |-> << LteCell >> ]) ] }

\* the searches whose views the model iterates
IterSearchInputs ==
    { DefaultSearch,
      [ DefaultSearch EXCEPT !.coords = Some(QueryPoint), !.limit = Some(500) ],
      [ DefaultSearch EXCEPT !.coords = Some(QueryPoint), !.limit = Some(1000),
                             !.count = Some(1) ],
      [ DefaultSearch EXCEPT !.date = Some(1), !.random = Some(TRUE), !.count = None ],
      [ DefaultSearch EXCEPT !.radio = Some([ isstr |-> FALSE, items |-> << "LTE", "GSM" >> ]) ] }

NoLast ==
    [ op |-> "none", v |-> 0, exc |-> None, value |-> None, warned |-> FALSE,
      date |-> 0, ci |-> None, fetched |-> {}, args |-> None, new |-> 0,
      executed |-> FALSE ]

\* no import is running (what is committed is the table), and a resolver
\* built by a caller that named its policy
NoImport == [ status |-> "idle", batch |-> << >>, pos |-> 0, reports |-> << >>,
              failures |-> 0, committed |-> RowUniverse, exc |-> None ]

Direct(policy) == [ via |-> "direct", named |-> Some(policy) ]

\* The resolver is built with one of the four policies, in a process with
\* the default warning filter or with cellscanner's.  Only the warn policy
\* reads the filter, so the other policies are started under one filter.
InitPg ==
    /\ table = RowUniverse
    /\ wfilter \in { "default", "error" }
    /\ aborted = FALSE
    /\ \E p \in Policies :
          /\ wfilter = "error" => p = "warn"
          /\ views = << PgDatabase("con", << >>, << >>, OrderNone, None, p, 0) >>
    /\ last = NoLast

\* ---- actions ----------------------------------------------------------------
\* One call is made at a time: `last` holds the call and its outcome until the
\* caller resumes.
\* view v's search(a) is called; the new view, if any, joins the heap
PgSearch(v, a) ==
    /\ last.op = "none"
    /\ Len(views) < MaxViews
    /\ LET r == Search(views[v], v, a)
       IN  /\ views' = IF IsNone(r.exc)
                       THEN Append([ views EXCEPT ![v] = r.self ], Val(r.new))
                       ELSE views
           /\ last' = [ NoLast EXCEPT !.op = "search", !.v = v, !.exc = r.exc,
                                      !.args = Some(a),
                                      !.new = IF IsNone(r.exc) THEN Len(views) + 1 ELSE 0 ]
    /\ UNCHANGED << table, wfilter, aborted >>
    /\ UNCHANGED gvars
    /\ UNCHANGED mvars
    /\ UNCHANGED cvars

\* view v's get(date, ci) is called
PgGet(v, date, ci) ==
    LET self == views[v]
        base == [ NoLast EXCEPT !.op = "get", !.v = v, !.date = date, !.ci = Some(ci) ]
    IN  /\ last.op = "none"
        /\ UNCHANGED << table, wfilter, views >>
        /\ UNCHANGED gvars
        /\ UNCHANGED mvars
        /\ UNCHANGED cvars
        /\ IF ~IdentitySupported(ci)
           THEN /\ last' = [ base EXCEPT !.exc = Some("ValueError") ]
                /\ UNCHANGED aborted
           ELSE \E qwhere \in { GetWhere(self, ci) }, qargs \in { GetArgs(self, date, ci) } :
                \E status \in { Execute(broken, aborted, qwhere, qargs) } :
                  IF status # "ok"
                  THEN /\ last' = [ base EXCEPT !.exc = Some(status), !.executed = TRUE ]
                       /\ aborted' = (aborted \/ status = "SyntaxError")
                  ELSE /\ UNCHANGED aborted
                       /\ \E rows \in { Selected(table, qwhere, qargs) } :
                          \E first \in (IF rows = {} THEN RowUniverse ELSE rows) :
                            LET out == GetOutcome(self.on_duplicate, wfilter, rows, first)
                            IN  last' = [ base EXCEPT !.exc = out.exc, !.value = out.value,
                                                      !.warned = out.warned,
                                                      !.fetched = { r.id : r \in rows },
                                                      !.executed = TRUE ]

\* ---- iteration ---------------------------------------------------------------
\* A cursor: closed or not, and the rows of its last query still to be fetched
\* (None: no query has produced a result on it).
NewCursor == [ closed |-> FALSE, res |-> None ]

\* the orders in which the server may return the rows S under ORDER BY
Orderings(S, qorder) ==
    { f \in [ 1 .. Cardinality(S) -> S ] :
        /\ \A i, j \in 1 .. Cardinality(S) : i # j => f[i] # f[j]
        /\ qorder.kind = "distance" =>
             \A i \in 1 .. Cardinality(S) - 1 :
                DistSq(f[i].x, f[i].y, qorder.x, qorder.y)
                    <= DistSq(f[i + 1].x, f[i + 1].y, qorder.x, qorder.y) }

\* the result sets the query of __iter__ may produce: the selected rows in an
\* allowed order, cut by LIMIT, with the ten columns the query names
IterResults(tbl, self) ==
    { [ k \in DOMAIN Truncate(f, self.count_limit) |-> Project(f[k], IterColumns) ] :
        f \in Orderings(Selected(tbl, self.qwhere, self.qargs), self.qorder) }

\* __enter__: a fresh cursor of the connection
PgEnter(v) ==
    /\ last.op = "none"
    /\ views' = [ views EXCEPT ![v].cur = Some(NewCursor) ]
    /\ last' = [ NoLast EXCEPT !.op = "enter", !.v = v ]
    /\ UNCHANGED << table, wfilter, aborted >>
    /\ UNCHANGED gvars
    /\ UNCHANGED mvars
    /\ UNCHANGED cvars

\* __exit__: self._cur.close()
PgExit(v) ==
    /\ last.op = "none"
    /\ IF IsNone(views[v].cur)
       THEN /\ last' = [ NoLast EXCEPT !.op = "exit", !.v = v, !.exc = Some("AttributeError") ]
            /\ UNCHANGED views
       ELSE /\ last' = [ NoLast EXCEPT !.op = "exit", !.v = v ]
            /\ views' = [ views EXCEPT ![v].cur = Some([ closed |-> TRUE, res |-> None ]) ]
    /\ UNCHANGED << table, wfilter, aborted >>
    /\ UNCHANGED gvars
    /\ UNCHANGED mvars
    /\ UNCHANGED cvars

\* __iter__: the assertion, then the query is executed on the view's cursor
PgIter(v) ==
    LET self == views[v]
        base == [ NoLast EXCEPT !.op = "iter", !.v = v ]
    IN  /\ last.op = "none"
        /\ UNCHANGED << table, wfilter >>
        /\ UNCHANGED gvars
        /\ UNCHANGED mvars
        /\ UNCHANGED cvars
        /\ IF IsNone(self.cur)
           THEN /\ last' = [ base EXCEPT !.exc = Some("AssertionError") ]
                /\ UNCHANGED << views, aborted >>
           ELSE IF Val(self.cur).closed
           THEN /\ last' = [ base EXCEPT !.exc = Some("InterfaceError") ]
                /\ UNCHANGED << views, aborted >>
           ELSE \E status \in { Execute(broken, aborted, self.qwhere, self.qargs) } :
                  IF status # "ok"
                  THEN /\ last' = [ base EXCEPT !.exc = Some(status), !.executed = TRUE ]
                       /\ aborted' = (aborted \/ status = "SyntaxError")
                       /\ views' = [ views EXCEPT ![v].cur = Some(NewCursor) ]
                  ELSE /\ UNCHANGED aborted
                       /\ \E res \in IterResults(table, self) :
                            /\ views' = [ views EXCEPT
                                            ![v].cur = Some([ closed |-> FALSE, res |-> Some(res) ]),
                                            ![v].result = Some(res),
                                            ![v].yielded = << >> ]
                            /\ last' = [ base EXCEPT !.executed = TRUE ]

\* __next__: fetchone, then _build_antenna on the row
PgNextRow(v) ==
    LET self == views[v]
        base == [ NoLast EXCEPT !.op = "next", !.v = v ]
    IN  /\ last.op = "none"
        /\ UNCHANGED << table, wfilter, aborted >>
        /\ UNCHANGED gvars
        /\ UNCHANGED mvars
        /\ UNCHANGED cvars
        /\ IF IsNone(self.cur)
           THEN /\ last' = [ base EXCEPT !.exc = Some("AttributeError") ]
                /\ UNCHANGED views
           ELSE IF Val(self.cur).closed
           THEN /\ last' = [ base EXCEPT !.exc = Some("InterfaceError") ]
                /\ UNCHANGED views
           ELSE IF IsNone(Val(self.cur).res)
           THEN /\ last' = [ base EXCEPT !.exc = Some("ProgrammingError") ]
                /\ UNCHANGED views
           ELSE IF Val(Val(self.cur).res) = << >>
           THEN /\ last' = [ base EXCEPT !.exc = Some("StopIteration") ]
                /\ UNCHANGED views
           ELSE LET rows == Val(Val(self.cur).res)
                    built == BuildAntenna(Head(rows))
                IN  IF ~IsNone(built.exc)
                    THEN /\ last' = [ base EXCEPT !.exc = built.exc ]
                         /\ views' = [ views EXCEPT
                                         ![v].cur = Some([ closed |-> FALSE,
                                                          res |-> Some(Tail(rows)) ]) ]
                    ELSE /\ last' = [ base EXCEPT !.value = Some(built.props) ]
                         /\ views' = [ views EXCEPT
                                         ![v].cur = Some([ closed |-> FALSE,
                                                          res |-> Some(Tail(rows)) ]),
                                         ![v].yielded = Append(@, built.props) ]

\* __len__: SELECT COUNT(*) under the view's WHERE clause, on a cursor of its own
PgLen(v) ==
    LET self == views[v]
        base == [ NoLast EXCEPT !.op = "len", !.v = v ]
    IN  /\ last.op = "none"
        /\ UNCHANGED << table, wfilter, views >>
        /\ UNCHANGED gvars
        /\ UNCHANGED mvars
        /\ UNCHANGED cvars
        /\ \E status \in { Execute(broken, aborted, self.qwhere, self.qargs) } :
              IF status # "ok"
              THEN /\ last' = [ base EXCEPT !.exc = Some(status), !.executed = TRUE ]
                   /\ aborted' = (aborted \/ status = "SyntaxError")
              ELSE /\ UNCHANGED aborted
                   /\ last' = [ base EXCEPT
                                  !.value = Some(Cardinality(Selected(table, self.qwhere,
                                                                      self.qargs))),
                                  !.executed = TRUE ]

\* ---- construction of the resolver ------------------------------------------
\* on_duplicate: Callable = duplicate_policy.warn
PgDefaultPolicy == "warn"

\* --on-duplicate-cell ... default="drop"
CliDefaultPolicy == "drop"

\* _open_database: the policy is looked up by the name the command line gives,
\* which is the option's default when the caller names none
OpenDatabase(named) ==
    PgDatabase("con", << >>, << >>, OrderNone, None,
               IF IsNone(named) THEN CliDefaultPolicy ELSE Val(named), 0)

\* the resolver of a caller: PgDatabase(con[, on_duplicate=...]) directly, or
\* through the cellscanner command line
Construct(o) ==
    IF o.via = "cli" THEN OpenDatabase(o.named)
    ELSE PgDatabase("con", << >>, << >>, OrderNone, None,
                    IF IsNone(o.named) THEN PgDefaultPolicy ELSE Val(o.named), 0)

Origins == [ via : { "direct", "cli" }, named : { None } \cup { Some(p) : p \in Policies } ]

\* cellscanner run as a program turns warnings into errors
InitQuery ==
    /\ origin \in Origins
    /\ views = << Construct(origin) >>
    /\ wfilter = (IF origin.via = "cli" THEN "error" ELSE "default")
    /\ table = RowUniverse
    /\ aborted = FALSE
    /\ last = NoLast
    /\ broken = FALSE
    /\ imp = NoImport

\* an identity of the GSM cell of the store's row without radio
GsmCell5 == Identity("CGI", Some("GSM"), Some(204), Some(4), Some(1), Some(5), None)

QuerySearchInputs ==
    { [ DefaultSearch EXCEPT !.coords = Some(QueryPoint), !.limit = Some(1000) ],
      [ DefaultSearch EXCEPT !.coords = Some(QueryPoint), !.limit = Some(1000),
                             !.exclude = Some([ single |-> FALSE, items |-> << GsmCell5 >> ]) ],
      [ DefaultSearch EXCEPT !.exclude = Some([ single |-> TRUE, ci |-> LteCell ]) ],
      [ DefaultSearch EXCEPT !.radio = Some([ isstr |-> TRUE, s |-> "6G" ]) ],
      [ DefaultSearch EXCEPT !.date = Some(1) ],
      [ DefaultSearch EXCEPT !.coords = Some(QueryPoint) ] }

\* CellIdentity.create(None, mcc, mnc, lac, ci, eci) with ci and eci both
\* given, as resolve_cell builds it: whichever class create returns
UnknownRadioIdentities ==
    { Identity(k, None, Some(204), Some(4), None, Some(n), Some(n)) :
        k \in { "CGI", "LTE", "other" }, n \in { 5, 9 } }

(***************************************************************************)
(* Bulk import: csv_import                                                 *)
(***************************************************************************)
MaxBatch == 3

\* A line of the file after the header: eleven fields, "" read as None.
\* Longitude and latitude are texts that float() reads: a finite number, in
\* units of 1/10000 degree from the reference point, or inf / nan.
Finite(n) == [ fin |-> TRUE, v |-> n ]

NonFinite == [ fin |-> FALSE, v |-> 0 ]

CsvRow(radio, mcc, lac, ci, eci, lon, lat) ==
    [ date_start |-> None, date_end |-> None, radio |-> radio, mcc |-> mcc,
      mnc |-> Some(4), lac |-> lac, ci |-> ci, eci |-> eci, lon |-> lon, lat |-> lat,
      azimuth |-> Some(120) ]

CsvLte == CsvRow(Some("LTE"), Some(204), None, None, Some(7), Finite(0), Finite(0))

CsvGsm == CsvRow(Some("GSM"), Some(204), Some(1), Some(0), None, Finite(10), Finite(0))

CsvNonFinite == CsvRow(Some("LTE"), Some(204), None, None, Some(8), NonFinite, Finite(0))

CsvNoId == CsvRow(Some("LTE"), Some(204), None, None, None, Finite(0), Finite(10))

CsvNoMcc == CsvRow(Some("LTE"), None, None, None, Some(9), Finite(0), Finite(0))

\* the rows the import's own checks are about
CheckedRows == { CsvLte, CsvGsm, CsvNonFinite, CsvNoId }

CsvRows == CheckedRows \cup { CsvNoMcc }

Batches == UNION { [ 1 .. n -> CsvRows ] : n \in 1 .. MaxBatch }

\* the checks of a row without the one on finite coordinates
RowErrorUnchecked(row) ==
    IF IsNone(row.ci) /\ IsNone(row.eci) THEN Some("") ELSE None

\* the checks of a row before it is sent: the message of the exception they
\* raise, if any (assert math.isfinite(lon), assert math.isfinite(lat),
\* assert ci is not None or eci is not None, which has no message)
RowError(row) ==
    IF ~row.lon.fin THEN Some("invalid number for longitude")
    ELSE IF ~row.lat.fin THEN Some("invalid number for latitude")
    ELSE IF IsNone(row.ci) /\ IsNone(row.eci) THEN Some("")
    ELSE None

\* WgsPoint(lon=lon, lat=lat).rd(): geodetic to grid coordinates, to the
\* first order around the reference point of the grid
WgsToRd(lon, lat) == [ x |-> QueryPoint.x + 7 * lon.v, y |-> QueryPoint.y + 11 * lat.v ]

\* the row INSERT stores for a line
StoredRow(row, id) ==
    [ id |-> id, date_start |-> row.date_start, date_end |-> row.date_end,
      radio |-> row.radio, mcc |-> row.mcc, mnc |-> row.mnc, lac |-> row.lac,
      ci |-> row.ci, eci |-> row.eci, x |-> WgsToRd(row.lon, row.lat).x,
      y |-> WgsToRd(row.lon, row.lat).y, azimuth |-> row.azimuth ]

\* cur.execute(INSERT ...): a lost connection, an aborted transaction, or the
\* table's NOT NULL constraints on mcc and mnc make it raise
InsertStatus(lost, failed, row) ==
    IF lost THEN "OperationalError"
    ELSE IF failed THEN "InFailedSqlTransaction"
    ELSE IF IsNone(row.mcc) \/ IsNone(row.mnc) THEN "IntegrityError"
    ELSE "ok"

\* csv_import is called with a file of the lines b: create_table drops and
\* creates the table in the connection's transaction
ImportBegin(b) ==
    /\ imp.status = "idle"
    /\ last.op = "none"
    /\ IF broken \/ aborted
       THEN /\ imp' = [ imp EXCEPT !.status = "raised", !.batch = b,
                                   !.exc = Some(IF broken THEN "OperationalError"
                                                ELSE "InFailedSqlTransaction") ]
            /\ UNCHANGED table
       ELSE /\ imp' = [ imp EXCEPT !.status = "running", !.batch = b ]
            /\ table' = {}
    /\ UNCHANGED << wfilter, aborted, views, last, origin, broken >>
    /\ UNCHANGED gvars
    /\ UNCHANGED mvars

\* except Exception as e: warnings.warn(f"import error at line {i+2}: {e}")
ImportReport(reason, lost) ==
    IF ~IsNone(WarningsWarn(wfilter))
    THEN [ imp EXCEPT !.status = "raised", !.exc = WarningsWarn(wfilter) ]
    ELSE [ imp EXCEPT !.pos = @ + 1,
                      !.reports = Append(@, [ line |-> imp.pos + 2, reason |-> reason ]),
                      !.failures = IF lost THEN @ + 1 ELSE @ ]

\* one turn of the loop over the lines: the checks, INSERT, commit, and the
\* handler of whatever was raised
ImportRow ==
    /\ imp.status = "running"
    /\ imp.pos < Len(imp.batch)
    /\ LET row == imp.batch[imp.pos + 1]
       IN  IF ~IsNone(RowError(row))
           THEN /\ imp' = ImportReport(Val(RowError(row)), FALSE)
                /\ UNCHANGED << table, aborted >>
           ELSE \E status \in { InsertStatus(broken, aborted, row) } :
                  IF status = "ok"
                  THEN /\ table' = table \cup { StoredRow(row, imp.pos + 1) }
                       /\ imp' = [ imp EXCEPT !.pos = @ + 1, !.committed = table' ]
                       /\ UNCHANGED aborted
                  ELSE /\ imp' = ImportReport(status, status = "OperationalError")
                       /\ aborted' = (aborted \/ status = "IntegrityError")
                       /\ UNCHANGED table
    /\ UNCHANGED << wfilter, views, last, origin, broken >>
    /\ UNCHANGED gvars
    /\ UNCHANGED mvars

\* the loop is over: csv_import returns
ImportReturn ==
    /\ imp.status = "running"
    /\ imp.pos = Len(imp.batch)
    /\ imp' = [ imp EXCEPT !.status = "returned" ]
    /\ UNCHANGED << table, wfilter, aborted, views, last, origin, broken >>
    /\ UNCHANGED gvars
    /\ UNCHANGED mvars

\* the server or the network goes away
ConnectionLost ==
    /\ ~broken
    /\ broken' = TRUE
    /\ UNCHANGED << table, wfilter, aborted, views, last, origin, imp >>
    /\ UNCHANGED gvars
    /\ UNCHANGED mvars

\* the caller has taken the outcome of its last call and goes on
Resume ==
    /\ last.op # "none"
    /\ last' = NoLast
    /\ UNCHANGED << table, wfilter, aborted, views >>
    /\ UNCHANGED gvars
    /\ UNCHANGED mvars
    /\ UNCHANGED cvars

(***************************************************************************)
(* Triage of measurement pairs: colocation/triage.py                       *)
(***************************************************************************)
\* Timestamps are integers; a duration is a number of ticks.
MaxStamp == 2

MaxPairs == 2

MaxBackground == 2

Stamps == 0 .. MaxStamp

Cells == { 1, 2 }

CellMeasurement(ts, cell) == [ timestamp |-> ts, cell |-> cell ]

CellMeasurementPair(left, right) == [ left |-> left, right |-> right ]

\* CellMeasurementPair.get_delay: the time between the two measurements
GetDelay(pair) ==
    IF pair.right.timestamp > pair.left.timestamp
    THEN pair.right.timestamp - pair.left.timestamp
    ELSE pair.left.timestamp - pair.right.timestamp

\* select_by_timestamp(from, to) of a measurement set: lower bound
\* inclusive, upper bound exclusive
SelectByTimestamp(ms, from, to) ==
    LET Within(m) == from <= m.timestamp /\ m.timestamp < to
    IN  SelectSeq(ms, Within)

\* select_by_left_timestamp(from, to) of a pair set, in the order of the set
SelectByLeftTimestamp(pairs, from, to) ==
    LET Within(p) == from <= p.left.timestamp /\ p.left.timestamp < to
    IN  SelectSeq(pairs, Within)

\* get_cell_frequencies: the number of measurements of every cell of the set
GetCellFrequencies(ms) ==
    [ c \in { ms[k].cell : k \in DOMAIN ms } |->
        Cardinality({ k \in DOMAIN ms : ms[k].cell = c }) ]

\* the copy of the counts from which one is taken for every background
\* measurement inside the interval
CellFrequenciesForInterval(ms, from, to) ==
    LET inside == SelectByTimestamp(ms, from, to)
    IN  [ c \in DOMAIN GetCellFrequencies(ms) |->
            GetCellFrequencies(ms)[c]
                - Cardinality({ k \in DOMAIN inside : inside[k].cell = c }) ]

\* cell_frequencies_for_interval.get(cell, 0)
FrequencyGet(freqs, cell) == IF cell \in DOMAIN freqs THEN freqs[cell] ELSE 0

\* a sort key that puts the least frequent right cell first
CandidateKeyRarest(pair, freq) == << freq, GetDelay(pair), pair.left.timestamp >>

\* key=lambda x: (-x[1], x[0].delay, x[0].left.timestamp)
CandidateKey(pair, freq) == << 0 - freq, GetDelay(pair), pair.left.timestamp >>

\* Python's order on tuples of three numbers
KeyLess(a, b) ==
    \/ a[1] < b[1]
    \/ a[1] = b[1] /\ a[2] < b[2]
    \/ a[1] = b[1] /\ a[2] = b[2] /\ a[3] < b[3]

RECURSIVE InsertByKey(_, _)
InsertByKey(sorted, c) ==
    IF sorted = << >> THEN << c >>
    ELSE IF KeyLess(c.key, Head(sorted).key) THEN << c >> \o sorted
    ELSE << Head(sorted) >> \o InsertByKey(Tail(sorted), c)

RECURSIVE SortedByKey(_)
\* sorted(candidates, key=...): stable, elements of equal key keep their order
SortedByKey(s) ==
    IF s = << >> THEN << >>
    ELSE InsertByKey(SortedByKey(SubSeq(s, 1, Len(s) - 1)), s[Len(s)])

\* the body of the loop of select_pair_from_interval_by_right_cell_rarity for
\* one interval: what it yields, as a sequence of no or one pair
SelectFromInterval(pairs, ms, from, to) ==
    LET freqs == CellFrequenciesForInterval(ms, from, to)
        found == SelectByLeftTimestamp(pairs, from, to)
        candidates ==
            [ k \in DOMAIN found |->
                [ pair |-> found[k],
                  key  |-> CandidateKey(found[k], FrequencyGet(freqs, found[k].right.cell)) ] ]
    IN  IF Len(candidates) > 0 THEN << SortedByKey(candidates)[1].pair >> ELSE << >>

\* division of integers rounding toward zero
TruncDiv(a, b) == IF a >= 0 THEN a \div b ELSE 0 - ((0 - a) \div b)

\* timedelta // timedelta: floor division
FloorDiv(a, b) == a \div b

RECURSIVE SortedIntervals(_)
\* sorted(intervals) on a set of (start, end) tuples
SortedIntervals(S) ==
    IF S = {} THEN << >>
    ELSE LET m == CHOOSE i \in S : \A o \in S :
                    i[1] < o[1] \/ (i[1] = o[1] /\ i[2] <= o[2])
         IN  << m >> \o SortedIntervals(S \ { m })

\* extract_intervals(timestamps, start_timestamp, duration)
ExtractIntervals(timestamps, start, duration) ==
    SortedIntervals(
        { << start + FloorDiv(timestamps[k] - start, duration) * duration,
             start + FloorDiv(timestamps[k] - start, duration) * duration + duration >> :
            k \in DOMAIN timestamps })

\* the inputs: pairs whose right measurement is of cell 1 at the time of the
\* left one, or of cell 2 one tick later; background measurements (their
\* order in the set is not read)
TriagePairs ==
    { CellMeasurementPair(CellMeasurement(l, 1), CellMeasurement(l + c - 1, c)) :
        l \in Stamps, c \in Cells }

PairSeqs == UNION { [ 1 .. n -> TriagePairs ] : n \in 0 .. MaxPairs }

BackgroundSeqs ==
    { s \in UNION { [ 1 .. n -> { CellMeasurement(t, c) : t \in Stamps, c \in Cells } ] :
                      n \in 0 .. MaxBackground } :
        \A i \in 1 .. Len(s) - 1 :
            \/ s[i].timestamp < s[i + 1].timestamp
            \/ s[i].timestamp = s[i + 1].timestamp /\ s[i].cell <= s[i + 1].cell }

\* interval lists a caller may hand over: ascending, descending, repeated,
\* overlapping
GivenIntervals ==
    { << << 0, 2 >>, << 2, 4 >> >>, << << 2, 4 >>, << 0, 2 >> >>,
      << << 1, 3 >>, << 1, 3 >> >>, << << 0, 2 >>, << 1, 3 >> >> }

ExtractStarts == { 0, 1, MaxStamp + 1 }

ExtractDurations == { 1, 2, 3 }

\* timestamp lists for extract_intervals, carried by pairs of one shape
ExtractPairSeqs ==
    UNION { [ 1 .. n -> { CellMeasurementPair(CellMeasurement(l, 1), CellMeasurement(l, 1)) :
                            l \in Stamps } ] : n \in 0 .. MaxPairs }

NoTriage ==
    [ pairs |-> << >>, background |-> << >>, intervals |-> None, extracted |-> None,
      pos |-> 0, out |-> << >> ]

TriageInit ==
    \E ps \in PairSeqs, bg \in BackgroundSeqs :
        tri = [ NoTriage EXCEPT !.pairs = ps, !.background = bg ]

ExtractInit == \E ps \in ExtractPairSeqs : tri = [ NoTriage EXCEPT !.pairs = ps ]

\* the caller computes the intervals of the pairs' left timestamps
TriageExtract(start, duration) ==
    /\ IsNone(tri.intervals)
    /\ LET timestamps == [ k \in DOMAIN tri.pairs |-> tri.pairs[k].left.timestamp ]
       IN  tri' = [ tri EXCEPT
                      !.intervals = Some(ExtractIntervals(timestamps, start, duration)),
                      !.extracted = Some([ timestamps |-> timestamps, start |-> start,
                                           duration |-> duration ]) ]
    /\ TriageFrame

\* the caller hands over intervals of its own
TriageGiven(ivs) ==
    /\ IsNone(tri.intervals)
    /\ tri' = [ tri EXCEPT !.intervals = Some(ivs) ]
    /\ TriageFrame

\* the generator select_pair_from_interval_by_right_cell_rarity is advanced
\* over its next interval
TriageSelectNext ==
    /\ ~IsNone(tri.intervals)
    /\ tri.pos < Len(Val(tri.intervals))
    /\ LET iv == Val(tri.intervals)[tri.pos + 1]
       IN  tri' = [ tri EXCEPT
                      !.pos = @ + 1,
                      !.out = @ \o << SelectFromInterval(tri.pairs, tri.background,
                                                         iv[1], iv[2]) >> ]
    /\ TriageFrame

(***************************************************************************)
(* Pairing of measurements: colocation/measurement_pair.py                 *)
(***************************************************************************)
MaxMeasurements == 3

\* sensor names, as numbers in the order in which the names sort
Sensors == 1 .. 3

Tracks == { "track1", "track2" }

TrackMeasurement(ts, track, sensor) == [ timestamp |-> ts, track |-> track, sensor |-> sensor ]

\* the timestamps of the measurements that are paired
PairingStamps == { 0, 1, 2 }

TrackMeasurements ==
    { TrackMeasurement(ts, tr, se) : ts \in PairingStamps, tr \in Tracks, se \in Sensors }

\* the measurement sets: up to MaxMeasurements different measurements
MeasurementSets == { ms \in SUBSET TrackMeasurements : Cardinality(ms) <= MaxMeasurements }

SelectByTrack(ms, track) == { m \in ms : m.track = track }

SelectBySensor(ms, sensors) == { m \in ms : m.sensor \in sensors }

SensorNames(ms) == { m.sensor : m \in ms }

TrackNames(ms) == { m.track : m \in ms }

\* sort_by("timestamp"): the orders in which the set may be iterated
SortByTimestamp(ms) ==
    { f \in [ 1 .. Cardinality(ms) -> ms ] :
        /\ \A i, j \in 1 .. Cardinality(ms) : i # j => f[i] # f[j]
        /\ \A i \in 1 .. Cardinality(ms) - 1 : f[i].timestamp <= f[i + 1].timestamp }

\* sorted([prev, item], key=lambda m: m.sensor): stable
SortPairBySensor(prev, item) ==
    IF item.sensor < prev.sensor THEN << item, prev >> ELSE << prev, item >>

\* _get_lag_pairs(items): each two consecutive items, sorted by sensor
GetLagPairs(items) ==
    [ i \in 1 .. Len(items) - 1 |-> SortPairBySensor(items[i], items[i + 1]) ]

\* pair_fields that calls every pair colocated
PairFieldsAlways(m0, m1) == TRUE

\* pair_fields of from_sequential_measurements without within_track
PairFieldsAcrossTracks(m0, m1) == m0.track = m1.track

\* lag pairs of one sensor without the test on the sensors
QualifiesAlways(pair) == TRUE

\* if pair[0].sensor == pair[1].sensor: continue
Qualifies(pair) == pair[1].sensor # pair[2].sensor

\* the pairs pair_sequential_measurements yields for one combination of two
\* sensors, whose measurements are iterated in the order `items`
PairsOfCombination(items, within) ==
    LET lag  == GetLagPairs(items)
        Keep(pair) == Qualifies(pair)
        kept == SelectSeq(lag, Keep)
    IN  [ k \in DOMAIN kept |->
            [ left |-> kept[k][1], right |-> kept[k][2],
              is_colocated |-> IF within THEN TRUE
                               ELSE PairFieldsAcrossTracks(kept[k][1], kept[k][2]) ] ]

RECURSIVE SetToSeq(_)
\* the elements of a set in some fixed order
SetToSeq(S) ==
    IF S = {} THEN << >>
    ELSE LET x == CHOOSE y \in S : TRUE IN << x >> \o SetToSeq(S \ { x })

\* the work of from_sequential_measurements: one unit for every combination
\* of two sensor names, of each track when within_track, of the whole set
\* otherwise
PairingUnits(ms, within) ==
    { u \in [ track   : IF within THEN { Some(t) : t \in TrackNames(ms) } ELSE { None },
              sensors : SUBSET Sensors ] :
        /\ Cardinality(u.sensors) = 2
        /\ u.sensors \subseteq
             SensorNames(IF within THEN SelectByTrack(ms, Val(u.track)) ELSE ms) }

\* the measurements a unit iterates
UnitMeasurements(ms, u) ==
    SelectBySensor(IF IsNone(u.track) THEN ms ELSE SelectByTrack(ms, Val(u.track)),
                   u.sensors)

NoPairing ==
    [ status |-> "idle", measurements |-> {}, within |-> TRUE, units |-> << >>,
      orders |-> << >>, out |-> << >> ]

PairingInit == \E ms \in MeasurementSets : prs = [ NoPairing EXCEPT !.measurements = ms ]

\* from_sequential_measurements(measurements, within_track) is called
FromSequentialMeasurements(within) ==
    /\ prs.status = "idle"
    /\ prs' = [ prs EXCEPT !.status = "running", !.within = within,
                           !.units = SetToSeq(PairingUnits(prs.measurements, within)) ]
    /\ PairingFrame

\* the chain of generators is advanced over the next combination of two
\* sensors; the store returns its measurements in one of the orders by
\* timestamp
PairSequentialMeasurements ==
    /\ prs.status = "running"
    /\ Len(prs.orders) < Len(prs.units)
    /\ \E items \in SortByTimestamp(UnitMeasurements(prs.measurements,
                                                     prs.units[Len(prs.orders) + 1])) :
         prs' = [ prs EXCEPT !.orders = Append(@, items),
                             !.out = @ \o PairsOfCombination(items, prs.within) ]
    /\ PairingFrame

\* the chain is exhausted: from_pairs has stored every pair
PairingReturn ==
    /\ prs.status = "running"
    /\ Len(prs.orders) = Len(prs.units)
    /\ prs' = [ prs EXCEPT !.status = "returned" ]
    /\ PairingFrame

(***************************************************************************)
(* Splits with background cells: colocation/datasplits.py                  *)
(***************************************************************************)
\* a measurement with an id, as the measurements read from a file have
IdMeasurement(ts, track, sensor) ==
    [ id |-> << ts, track, sensor >>, timestamp |-> ts, track |-> track, sensor |-> sensor ]

SplitSensors == { 1, 2 }

BackgroundSets ==
    { bg \in SUBSET { IdMeasurement(ts, tr, se) : ts \in PairingStamps, tr \in Tracks,
                                                   se \in SplitSensors } :
        Cardinality(bg) <= MaxMeasurements }

\* a pair with its is_colocated value
ColocationPair(left, right, col) == [ left |-> left, right |-> right, is_colocated |-> col ]

\* colocated_training_pairs.with_value(is_colocated=True): two pairs, of
\* delay 0 and of delay 1
ColocatedTrainingPairs ==
    << ColocationPair(IdMeasurement(0, "track1", 1), IdMeasurement(0, "track1", 2), TRUE),
       ColocationPair(IdMeasurement(1, "track1", 1), IdMeasurement(2, "track1", 2), TRUE) >>

\* the test pairs: their left measurements are background measurements, in
\* ascending order; their right measurement is not read
TestPairSeqs(bg) ==
    { s \in UNION { [ 1 .. n -> { ColocationPair(m, IdMeasurement(0, "track2", 2), TRUE) :
                                    m \in bg } ] : n \in 0 .. MaxPairs } :
        \A i \in 1 .. Len(s) - 1 :
            \/ s[i].left.timestamp < s[i + 1].left.timestamp
            \/ /\ s[i].left.timestamp = s[i + 1].left.timestamp
               /\ s[i].left.sensor < s[i + 1].left.sensor }

MinBackgroundDelays == { 1, 2 }

\* an addition that extends the receiver itself
PairSetAddInPlace(self, other) == [ self |-> self \o other, result |-> self \o other ]

\* MeasurementPairSet.__add__: a new set with the pairs of self, to which
\* __iadd__ adds the pairs of other; the receiver stays as it was
PairSetAdd(self, other) == [ self |-> self, result |-> self \o other ]

\* abs((ref.timestamp - other.timestamp).total_seconds()) >= min_real_delay
FarEnough(ref, other, min_real_delay) ==
    (IF ref.timestamp >= other.timestamp THEN ref.timestamp - other.timestamp
     ELSE other.timestamp - ref.timestamp) >= min_real_delay

\* the background measurements create_background_pairs pairs ref with
BackgroundFor(bg, ref, min_real_delay) ==
    { other \in SelectBySensor(SelectByTrack(bg, ref.track), { ref.sensor }) :
        FarEnough(ref, other, min_real_delay) }

\* _get_random_delay(): the delay of one of the colocated training pairs
RandomDelays(colocated) == { GetDelay(colocated[k]) : k \in DOMAIN colocated }

\* create_background_pairs(ref, min_real_delay) with the delays drawn
CreateBackgroundPairs(bg, ref, min_real_delay, delays) ==
    LET others == SetToSeq(BackgroundFor(bg, ref, min_real_delay))
    IN  [ k \in DOMAIN others |->
            ColocationPair(ref,
                           [ others[k] EXCEPT !.timestamp = ref.timestamp + delays[others[k]] ],
                           FALSE) ]

NoSplit ==
    [ colocated |-> << >>, tests |-> << >>, background |-> {}, min |-> 0, pos |-> 0,
      out |-> << >> ]

\* DataWithBackgroundCells(colocated_training_pairs, test_pairs,
\* background_measurements, min_background_delay_secs)
SplitInit ==
    \E bg \in BackgroundSets, d \in MinBackgroundDelays :
        \E ts \in TestPairSeqs(bg) :
            spl = [ NoSplit EXCEPT !.colocated = ColocatedTrainingPairs, !.tests = ts,
                                   !.background = bg, !.min = d ]

\* the iterator of the splits is advanced over the next test pair
SplitNext ==
    /\ Len(spl.colocated) > 0
    /\ spl.pos < Len(spl.tests)
    /\ LET test_pair == spl.tests[spl.pos + 1]
       IN  \E delays \in [ BackgroundFor(spl.background, test_pair.left, spl.min) ->
                             RandomDelays(spl.colocated) ] :
             LET dislocated == CreateBackgroundPairs(spl.background, test_pair.left,
                                                     spl.min, delays)
                 sum == PairSetAdd(spl.colocated, dislocated)
             IN  spl' = [ spl EXCEPT
                            !.colocated = sum.self,
                            !.pos = @ + 1,
                            !.out = Append(@, [ training |-> sum.result,
                                                test |-> << test_pair >> ]) ]
    /\ SplitFrame

(***************************************************************************)
(* The cellscanner measurement set: cellscanner/cellscanner_measurements.py *)
(***************************************************************************)
MaxChain == 3

\* CellscannerMeasurementSet(con, cell_resolver, max_accuracy_m, tracks,
\* sensors, sort_key, limit): every selection defaults to None
CellscannerMeasurementSet(max_accuracy_m, tracks, sensors, sort_key, limit) ==
    [ max_accuracy_m |-> max_accuracy_m, tracks |-> tracks, sensors |-> sensors,
      sort_key |-> sort_key, limit |-> limit ]

CellscannerRoot == CellscannerMeasurementSet(None, None, None, None, None)

SelectionKeys == { "max_accuracy_m", "tracks", "sensors", "sort_key", "limit" }

\* _create_augmented_set(**selection): the new set is built from the new
\* selection alone
CreateAugmentedSet(self, key, value) == [ CellscannerRoot EXCEPT ![key] = Some(value) ]

\* select_by_track, select_by_sensor, select_by_max_accuracy, sort_by, limit
\* with the arguments a caller passes: the keyword and its value
Refinements ==
    { << "tracks", << "track1" >> >>, << "tracks", << "track2" >> >>,
      << "sensors", << 1 >> >>, << "sensors", << 1, 2 >> >>,
      << "max_accuracy_m", 10 >>, << "max_accuracy_m", 50 >>,
      << "sort_key", "timestamp" >>, << "limit", 1 >> }

\* the joined rows of locationinfo, device and cellinfo
CellscannerRows ==
    { [ install_id |-> "track1", tag |-> None, subscription |-> 1, accuracy |-> 10 ],
      [ install_id |-> "track1", tag |-> None, subscription |-> 2, accuracy |-> 50 ],
      [ install_id |-> "track2", tag |-> None, subscription |-> 1, accuracy |-> 50 ],
      [ install_id |-> "id3", tag |-> Some("track2"), subscription |-> 2, accuracy |-> 10 ] }

\* the WHERE clause of _build_query on a row
CellscannerWhere(self, row) ==
    /\ ~IsNone(self.tracks) =>
         \/ row.install_id \in Range(Val(self.tracks))
         \/ (~IsNone(row.tag) /\ Val(row.tag) \in Range(Val(self.tracks)))
    /\ ~IsNone(self.sensors) => row.subscription \in Range(Val(self.sensors))
    /\ ~IsNone(self.max_accuracy_m) => row.accuracy <= Val(self.max_accuracy_m)

NoChain == [ chain |-> << >>, sets |-> << CellscannerRoot >> ]

\* a refinement method is called on the set the chain has reached
CellscannerRefine(key, value) ==
    /\ Len(cms.chain) < MaxChain
    /\ cms' = [ chain |-> Append(cms.chain, << key, value >>),
                sets  |-> Append(cms.sets,
                                 CreateAugmentedSet(cms.sets[Len(cms.sets)], key, value)) ]
    /\ CellscannerFrame

(***************************************************************************)
(* Claims about the grid backend                                           *)
(***************************************************************************)
Dists(s) == [ k \in DOMAIN s |-> s[k].dist ]

Ecis(s) == { s[k].ant.eci : k \in DOMAIN s }

\* C1: for every grid size, query point, distance limit and excluded antenna,
\* the grid search returns the antennas of the exhaustive scan (same distance
\* comparison, excluded antenna dropped, sorted by distance, truncated to
\* count_limit): the same distances in the same ascending order, every
\* returned antenna one the scan keeps, none returned twice.
C1_GridSearchEqualsLinearScan ==
    glast.called =>
        /\ Dists(glast.result) = Dists(LinearScan(db, glast.args))
        /\ Ecis(glast.result) \subseteq { c.ant.eci : c \in LinearScanAll(db, glast.args) }
        /\ Cardinality(Ecis(glast.result)) = Len(glast.result)

\* C9 (grid backend): with a lower limit l, no returned antenna has a
\* distance less than or equal to l.
C9_LowerLimitExclusive ==
    (glast.called /\ ~IsNone(glast.args.lower)) =>
        \A k \in DOMAIN glast.result :
            glast.result[k].dist > Val(glast.args.lower) * Val(glast.args.lower)

(***************************************************************************)
(* Claims about the relational backend                                     *)
(***************************************************************************)
\* a record is valid at instant t
ValidAt(r, t) ==
    /\ IsNone(r.date_start) \/ t >= Val(r.date_start)
    /\ IsNone(r.date_end) \/ t < Val(r.date_end)

\* every field the identity sets equals the record's field
MatchesIdentity(r, ci) ==
    /\ IsNone(ci.radio) \/ r.radio = ci.radio
    /\ IsNone(ci.mcc) \/ r.mcc = ci.mcc
    /\ IsNone(ci.mnc) \/ r.mnc = ci.mnc
    /\ ci.kind = "CGI" => /\ IsNone(ci.lac) \/ r.lac = ci.lac
                          /\ IsNone(ci.ci) \/ r.ci = ci.ci
    /\ ci.kind = "LTE" => (IsNone(ci.eci) \/ r.eci = ci.eci)

\* the antenna record of a stored row
RecordOf(r) == BuildAntenna(Project(r, GetColumns)).props

\* the stored records valid at t that the identity addresses
MatchingAt(t, ci) == { r \in table : ValidAt(r, t) /\ MatchesIdentity(r, ci) }

IsPrefix(s, t) == Len(s) <= Len(t) /\ SubSeq(t, 1, Len(s)) = s

\* the last call was get and its query ran
GetRan ==
    /\ last.op = "get" /\ last.executed
    /\ last.exc \notin { Some("TypeError"), Some("IndexError"), Some("SyntaxError"),
                          Some("InFailedSqlTransaction"), Some("OperationalError") }

\* C2: when the query of get matches two or more records, the exception
\* policy raises, take_first and warn return one of the matching records
\* (warn with a warning), drop returns none.
C2_DuplicatePolicyOutcome ==
    (GetRan /\ Cardinality(last.fetched) >= 2) =>
        LET policy == views[last.v].on_duplicate
            Returned == /\ IsNone(last.exc)
                        /\ \E r \in table : r.id \in last.fetched /\ last.value = Some(RecordOf(r))
        IN  /\ policy = "exception" => ~IsNone(last.exc)
            /\ policy = "take_first" => Returned
            /\ policy = "warn" => (Returned /\ last.warned)
            /\ policy = "drop" => (IsNone(last.exc) /\ IsNone(last.value))

\* C3: on the resolver, get(date, identity) returns none when no stored
\* record matches identity at date, and returns the record when exactly one
\* does, under each of the four duplicate policies.
C3_GetWithoutDuplicates ==
    (last.op = "get" /\ last.v = 1) =>
        LET m == MatchingAt(last.date, Val(last.ci))
        IN  /\ m = {} => (IsNone(last.exc) /\ IsNone(last.value))
            /\ Cardinality(m) = 1 =>
                 (IsNone(last.exc) /\ \A r \in m : last.value = Some(RecordOf(r)))

\* C4: get(t, identity) on the resolver fetches exactly the records of that
\* identity that are valid at the instant t, and a view built by
\* search(date=t) selects exactly the records valid at t.
C4_ValidAtTheInstant ==
    /\ (GetRan /\ last.v = 1) =>
          last.fetched = { r.id : r \in MatchingAt(last.date, Val(last.ci)) }
    /\ (/\ last.op = "search" /\ last.v = 1 /\ IsNone(last.exc)
        /\ Val(last.args) = [ DefaultSearch EXCEPT !.date = Val(last.args).date ]
        /\ ~IsNone(Val(last.args).date)) =>
          Selected(table, views[last.new].qwhere, views[last.new].qargs)
              = { r \in table : ValidAt(r, Val(Val(last.args).date)) }

\* C7: search and get leave every view as it was (constraint list, parameter
\* list, ordering, count limit, duplicate policy, connection); search runs no
\* query and returns a new view whose lists extend the receiver's, with the
\* receiver's connection and duplicate policy.
C7Step ==
    (last.op = "none" /\ last'.op \in { "search", "get" }) =>
        /\ \A i \in DOMAIN views : Frame(views'[i]) = Frame(views[i])
        /\ last'.op = "search" =>
             /\ ~last'.executed
             /\ IsNone(last'.exc) =>
                  /\ Len(views') = Len(views) + 1
                  /\ last'.new = Len(views')
                  /\ views'[last'.new].con = views[last'.v].con
                  /\ views'[last'.new].on_duplicate = views[last'.v].on_duplicate
                  /\ IsPrefix(views[last'.v].qwhere, views'[last'.new].qwhere)
                  /\ IsPrefix(views[last'.v].qargs, views'[last'.new].qargs)

C7_SearchAndGetKeepReceiver == [][C7Step]_vars

\* a search on a derived view, with constraints of its own, has returned a
\* longer view
C7_Witness ==
    /\ last.op = "search" /\ IsNone(last.exc) /\ last.v > 1
    /\ Len(views[last.v].qwhere) > 0
    /\ Len(views[last.new].qwhere) > Len(views[last.v].qwhere)

\* C10: search with radio given as one string or as a sequence of one or more
\* radios gives a view whose query runs and selects, among the rows of the
\* receiver, exactly those whose radio is one of the given radios.
C10_RadioSetSelects ==
    (/\ last.op = "search" /\ IsNone(last.exc) /\ last.v = 1
     /\ ~IsNone(Val(last.args).radio)
     /\ Val(last.args) = [ DefaultSearch EXCEPT !.radio = Val(last.args).radio ]) =>
        LET w == views[last.new]
        IN  /\ ExecuteStatus(aborted, w.qwhere, w.qargs) = "ok"
            /\ Selected(table, w.qwhere, w.qargs)
                 = { r \in table : \E x \in Range(RadioList(Val(Val(last.args).radio))) :
                                      r.radio = Some(x) }

\* C11: a search with excluded identities selects the rows the same search
\* without exclusion selects, minus the rows that match an excluded identity;
\* a row with an unset radio, lac, ci or eci is removed only if it matches.
C11_ExcludeRemovesOnlyMatches ==
    (last.op = "search" /\ IsNone(last.exc) /\ ~IsNone(Val(last.args).exclude)) =>
        LET a  == Val(last.args)
            w  == views[last.new]
            w0 == Val(Search(views[last.v], last.v, [ a EXCEPT !.exclude = None ]).new)
            ex == ExcludeList(Val(a.exclude))
        IN  Selected(table, w.qwhere, w.qargs)
              = { r \in Selected(table, w0.qwhere, w0.qargs) :
                    ~\E k \in DOMAIN ex : MatchesIdentity(r, ex[k]) }

\* C12: the length operation of every view, the resolver without constraints
\* included, returns the number of stored rows that satisfy the view's
\* constraints.
C12_LenCountsSelected ==
    last.op = "len" =>
        /\ IsNone(last.exc)
        /\ last.value = Some(Cardinality(Selected(table, views[last.v].qwhere,
                                                  views[last.v].qargs)))

\* C14: search with a radio that is not GSM, UMTS or LTE raises and returns
\* no view.
C14_UnknownRadioRejected ==
    (/\ last.op = "search"
     /\ ~IsNone(Val(last.args).radio)
     /\ \E x \in Range(RadioList(Val(Val(last.args).radio))) :
            x \notin { "GSM", "UMTS", "LTE" }) =>
        (~IsNone(last.exc) /\ last.new = 0)

\* C18: a resolver built without a named duplicate policy, directly or
\* through the command line, has the exception or the warn policy; drop is in
\* effect only when the caller names it.
C18_DefaultPolicyConservative ==
    /\ IsNone(origin.named) => views[1].on_duplicate \in { "exception", "warn" }
    /\ views[1].on_duplicate = "drop" => origin.named = Some("drop")

\* the records valid at t, of the identity's operator, whose legacy cell-id
\* or whose eci is the identity's
EitherInterpretation(t, ci) ==
    { r \in table : /\ ValidAt(r, t)
                    /\ r.mcc = ci.mcc /\ r.mnc = ci.mnc
                    /\ (r.ci = ci.ci \/ r.eci = ci.eci) }

\* C20: for an identity with unknown radio that carries a legacy cell-id and
\* an eci, get at a midnight t returns the one record valid at t whose cell-id
\* or whose eci is the identity's.
C20_UnknownRadioTriesBoth ==
    (/\ last.op = "get" /\ last.v = 1
     /\ last.date = CombineMinTime(last.date)
     /\ Val(last.ci) \in UnknownRadioIdentities
     /\ Cardinality(EitherInterpretation(last.date, Val(last.ci))) = 1) =>
        /\ IsNone(last.exc)
        /\ \A r \in EitherInterpretation(last.date, Val(last.ci)) :
               last.value = Some(RecordOf(r))

IdentityFields == { "radio", "mcc", "mnc", "lac", "ci", "eci" }

\* the conjunction built for identity ci holds no comparison on a field that
\* is None and exactly one equality, with the field's value, on a field that
\* is set
ConstrainsSetFields(ci) ==
    \A f \in IdentityFields :
        LET atoms == IdentityAtoms(ci)
            on    == { k \in DOMAIN atoms : atoms[k].col = f }
        IN  IF IsNone(ci[f]) THEN on = {}
            ELSE /\ Cardinality(on) = 1
                 /\ \A k \in on :
                       /\ atoms[k].a = "eq"
                       /\ IF atoms[k].ph THEN IdentityArgs(ci) = << Val(ci[f]) >>
                          ELSE atoms[k].v = Val(ci[f])

\* C21: in the identity constraints built for get and for exclusion, every
\* field that is None contributes nothing and every field that is set, 0
\* included, contributes an equality on its value.
C21_SetFieldsConstrain ==
    /\ (last.op = "get" /\ IdentitySupported(Val(last.ci))) =>
           ConstrainsSetFields(Val(last.ci))
    /\ (last.op = "search" /\ ~IsNone(Val(last.args).exclude)) =>
           \A k \in DOMAIN ExcludeList(Val(Val(last.args).exclude)) :
               LET ci == ExcludeList(Val(Val(last.args).exclude))[k]
               IN  IdentitySupported(ci) => ConstrainsSetFields(ci)

(***************************************************************************)
(* Claims about the bulk import                                            *)
(***************************************************************************)
\* a line with finite coordinates and a cell-id or an eci
ValidLine(row) == row.lon.fin /\ row.lat.fin /\ (~IsNone(row.ci) \/ ~IsNone(row.eci))

\* a valid line the store accepts
AcceptedLine(row) == ValidLine(row) /\ ~IsNone(row.mcc) /\ ~IsNone(row.mnc)

\* C15: when csv_import has returned without meeting a lost connection,
\* every line the store accepts is inserted and committed, whatever lines
\* failed before it, and every other line is reported with its line number.
C15_LaterRowsSurviveAFailure ==
    (imp.status = "returned" /\ imp.failures = 0) =>
        /\ \A i \in DOMAIN imp.batch :
              AcceptedLine(imp.batch[i]) => StoredRow(imp.batch[i], i) \in imp.committed
        /\ \A i \in DOMAIN imp.batch :
              ~AcceptedLine(imp.batch[i]) =>
                  \E k \in DOMAIN imp.reports : imp.reports[k].line = i + 1

\* C16: after csv_import of a batch whose invalid lines have a non-finite
\* coordinate or neither ci nor eci, the table the importing connection sees
\* holds exactly the valid lines of the batch, and they are committed.
C16_InvalidRowsSkipped ==
    (/\ imp.status = "returned" /\ imp.failures = 0
     /\ Range(imp.batch) \subseteq CheckedRows) =>
        LET valid == { StoredRow(imp.batch[i], i) :
                         i \in { j \in DOMAIN imp.batch : ValidLine(imp.batch[j]) } }
        IN  /\ table = valid
            /\ valid # {} => imp.committed = valid

\* an import has returned that skipped a line with a non-finite coordinate
\* and a line without ci and eci, and stored a valid line after them
C16_Witness ==
    /\ imp.status = "returned" /\ imp.failures = 0
    /\ Range(imp.batch) \subseteq CheckedRows
    /\ \E i, j, k \in DOMAIN imp.batch :
          /\ i < k /\ j < k
          /\ imp.batch[i] = CsvNonFinite /\ imp.batch[j] = CsvNoId
          /\ StoredRow(imp.batch[k], k) \in table

\* C17: a get, a length operation or an iteration made on a lost connection
\* raises the storage error, and an import that met a storage error does not
\* return normally.
C17Step ==
    /\ (/\ broken /\ last.op = "none"
        /\ last'.op \in { "get", "len", "iter" } /\ last'.executed) =>
           last'.exc = Some("OperationalError")
    /\ imp'.status = "returned" => imp'.failures = 0

C17_StorageFailureReachesCaller == [][C17Step]_vars

(***************************************************************************)
(* Claims about iteration                                                  *)
(***************************************************************************)
NonDecreasingDistance(recs, x, y) ==
    \A i \in 1 .. Len(recs) - 1 :
        DistSq(recs[i].wgs84.x, recs[i].wgs84.y, x, y)
            <= DistSq(recs[i + 1].wgs84.x, recs[i + 1].wgs84.y, x, y)

\* C5: an iteration of a view of search(point, distance limit), inside its
\* context, ends with StopIteration after one record for every selected row,
\* up to the count limit, in non-decreasing distance from point.
C5_IterationYieldsRecords ==
    (/\ last.op = "next" /\ ~IsNone(last.exc)
     /\ views[last.v].qorder.kind = "distance"
     /\ ~IsNone(views[last.v].cur)
     /\ ~Val(views[last.v].cur).closed
     /\ ~IsNone(Val(views[last.v].cur).res)) =>
        LET w   == views[last.v]
            sel == Selected(table, w.qwhere, w.qargs)
        IN  /\ last.exc = Some("StopIteration")
            /\ Len(w.yielded) = (IF IsNone(w.count_limit) THEN Cardinality(sel)
                                 ELSE Min2(Val(w.count_limit), Cardinality(sel)))
            /\ Range(w.yielded) \subseteq { RecordOf(r) : r \in sel }
            /\ NonDecreasingDistance(w.yielded, w.qorder.x, w.qorder.y)

\* C6: the rows r.search(A).search(B) produces are among the rows
\* r.search(A) produces.
C6_SearchOfSearchIsSubset ==
    \A i \in DOMAIN views :
        (/\ views[i].parent > 1
         /\ ~IsNone(views[i].result)
         /\ ~IsNone(views[views[i].parent].result)) =>
            Range(Val(views[i].result)) \subseteq Range(Val(views[views[i].parent].result))

(***************************************************************************)
(* Further claims about the grid backend                                   *)
(***************************************************************************)
\* C8: every antenna search(point, distance_limit_m=d) returns is strictly
\* closer to point than d.
C8_UpperLimitExclusive ==
    (glast.called /\ ~IsNone(glast.args.limit)) =>
        \A k \in DOMAIN glast.result :
            glast.result[k].dist < Val(glast.args.limit) * Val(glast.args.limit)

\* C13: search with coordinates and without a distance limit raises in both
\* backends; it returns neither a result nor a view.
C13_CoordsWithoutLimitRejected ==
    /\ (glast.called /\ IsNone(glast.args.limit)) => glast.raised
    /\ (/\ last.op = "search"
        /\ ~IsNone(Val(last.args).coords)
        /\ IsNone(Val(last.args).limit)) => (~IsNone(last.exc) /\ last.new = 0)

\* C19: every search call on the grid backend returns what the search computes
\* without its cache for the same arguments.
C19_CacheIsTransparent ==
    glast.called => glast.result = GridSearchBody(db, glast.args)

(***************************************************************************)
(* Claims about the context of an iteration                                *)
(***************************************************************************)
\* the view is between __enter__ and __exit__: it has a cursor that is open
WithinContext(view) == ~IsNone(view.cur) /\ ~Val(view.cur).closed

\* C29: an iteration of a view that is not between entering and leaving its
\* context is rejected by the "use within context" assertion, before any
\* query is executed.
C29_IterationOnlyWithinContext ==
    (last.op = "iter" /\ ~WithinContext(views[last.v])) =>
        /\ last.exc = Some("AssertionError")
        /\ ~last.executed

\* the view's iteration has fetched some rows of its result and has rows left
IterationInProgress(view) ==
    /\ WithinContext(view)
    /\ ~IsNone(Val(view.cur).res)
    /\ ~IsNone(view.result)
    /\ Val(Val(view.cur).res) # << >>
    /\ Len(Val(Val(view.cur).res)) < Len(Val(view.result))

C30Step ==
    (/\ last.op = "none" /\ last'.op = "iter" /\ IsNone(last'.exc)
     /\ IterationInProgress(views[last'.v])) =>
        Val(views'[last'.v].cur).res = Val(views[last'.v].cur).res

\* C30: a second iteration started on a view whose first iteration is in
\* progress leaves the rows the first iteration goes on to fetch as they were.
C30_SecondIterationLeavesFirstAlone == [][C30Step]_vars

(***************************************************************************)
(* Claims about the triage of pairs                                        *)
(***************************************************************************)
\* the pairs of the set whose left timestamp lies in [from, to)
IntervalCandidates(from, to) ==
    { tri.pairs[k] : k \in { j \in DOMAIN tri.pairs :
                               /\ from <= tri.pairs[j].left.timestamp
                               /\ tri.pairs[j].left.timestamp < to } }

\* the number of background measurements of a cell outside [from, to)
OutsideFrequency(cell, from, to) ==
    Cardinality({ k \in DOMAIN tri.background :
                    /\ tri.background[k].cell = cell
                    /\ ~(/\ from <= tri.background[k].timestamp
                         /\ tri.background[k].timestamp < to) })

Delay(p) ==
    IF p.right.timestamp >= p.left.timestamp
    THEN p.right.timestamp - p.left.timestamp
    ELSE p.left.timestamp - p.right.timestamp

\* p is a best candidate of the interval: no candidate has a more frequent
\* right cell, none of the equally frequent ones a smaller delay, and none of
\* those with the same delay an earlier left timestamp
BestOf(p, from, to) ==
    /\ p \in IntervalCandidates(from, to)
    /\ \A q \in IntervalCandidates(from, to) :
         LET fp == OutsideFrequency(p.right.cell, from, to)
             fq == OutsideFrequency(q.right.cell, from, to)
         IN  /\ fq <= fp
             /\ fq = fp => Delay(p) <= Delay(q)
             /\ (fq = fp /\ Delay(p) = Delay(q)) => p.left.timestamp <= q.left.timestamp

C25_IntervalsCoverTimestamps ==
    ~IsNone(tri.extracted) =>
        LET e   == Val(tri.extracted)
            ivs == Val(tri.intervals)
            Holds(iv, t) == iv[1] <= t /\ t < iv[2]
        IN  /\ \A i \in 1 .. Len(ivs) - 1 : ivs[i][1] < ivs[i + 1][1]
            /\ \A i \in DOMAIN ivs :
                 /\ ivs[i][2] = ivs[i][1] + e.duration
                 /\ (ivs[i][1] - e.start) % e.duration = 0
                 /\ \E j \in DOMAIN e.timestamps : Holds(ivs[i], e.timestamps[j])
            /\ \A j \in DOMAIN e.timestamps :
                 Cardinality({ i \in DOMAIN ivs : Holds(ivs[i], e.timestamps[j]) }) = 1

\* two intervals are returned, one of them before the start timestamp and
\* with a timestamp that is not on its lower bound
C25_Witness ==
    /\ ~IsNone(tri.extracted)
    /\ Len(Val(tri.intervals)) = 2
    /\ \E i \in DOMAIN Val(tri.intervals), j \in DOMAIN Val(tri.extracted).timestamps :
         /\ Val(tri.intervals)[i][1] < Val(tri.extracted).start
         /\ Val(tri.intervals)[i][2] <= Val(tri.extracted).start
         /\ Val(tri.intervals)[i][1] < Val(tri.extracted).timestamps[j]
         /\ Val(tri.extracted).timestamps[j] < Val(tri.intervals)[i][2]

(***************************************************************************)
(* Claims about the pairing of measurements                                *)
(***************************************************************************)
\* the measurements of two sensors (of one track when within_track), and the
\* order by timestamp in which unit k met them
ConsecutiveInUnit(k, m0, m1) ==
    \E i \in 1 .. Len(prs.orders[k]) - 1 :
        { prs.orders[k][i], prs.orders[k][i + 1] } = { m0, m1 }

OrderedByTimestamp(k) ==
    /\ Range(prs.orders[k]) =
         { m \in prs.measurements :
             /\ m.sensor \in prs.units[k].sensors
             /\ ~IsNone(prs.units[k].track) => m.track = Val(prs.units[k].track) }
    /\ Len(prs.orders[k]) = Cardinality(Range(prs.orders[k]))
    /\ \A i \in 1 .. Len(prs.orders[k]) - 1 :
         prs.orders[k][i].timestamp <= prs.orders[k][i + 1].timestamp

C24_ColocatedMeansSameTrack ==
    \A i \in DOMAIN prs.out :
        IF prs.within THEN prs.out[i].is_colocated
        ELSE prs.out[i].is_colocated <=> (prs.out[i].left.track = prs.out[i].right.track)

\* without within_track, a pair of one track and a pair across two tracks
C24_Witness ==
    /\ prs.status = "returned"
    /\ ~prs.within
    /\ \E i, j \in DOMAIN prs.out :
         /\ prs.out[i].is_colocated
         /\ ~prs.out[j].is_colocated
         /\ prs.out[j].left.track # prs.out[j].right.track

(***************************************************************************)
(* Claims about the splits with background cells                           *)
(***************************************************************************)
\* the background measurements of the track and sensor of ref at least
\* spl.min away from it in time
ExpectedBackground(ref) ==
    { o \in spl.background :
        /\ o.track = ref.track /\ o.sensor = ref.sensor
        /\ (o.timestamp - ref.timestamp >= spl.min \/ ref.timestamp - o.timestamp >= spl.min) }

\* the test pair a split belongs to: splits are yielded in the order of the
\* test pairs
TestPairOf(k) == spl.tests[k]

LastSelection(key) ==
    LET given == { k \in DOMAIN cms.chain : cms.chain[k][1] = key }
    IN  IF given = {} THEN None
        ELSE Some(cms.chain[CHOOSE k \in given : \A j \in given : j <= k][2])

\* C28: the set a chain of refinements ends in keeps the track, sensor and
\* accuracy selection, the sort key and the limit made anywhere in the chain,
\* and holds the rows that satisfy all of its selections.
C28_RefinementsAccumulate ==
    LET cur == cms.sets[Len(cms.sets)]
    IN  /\ \A key \in SelectionKeys : cur[key] = LastSelection(key)
        /\ \A row \in CellscannerRows :
             CellscannerWhere(cur, row) =>
                \A k \in DOMAIN cms.chain :
                    cms.chain[k][1] \in { "tracks", "sensors", "max_accuracy_m" } =>
                        CellscannerWhere(
                            [ CellscannerRoot EXCEPT ![cms.chain[k][1]] = Some(cms.chain[k][2]) ],
                            row)

(***************************************************************************)
(* Specifications                                                          *)
(***************************************************************************)
NoMeasurements == tri = NoTriage /\ prs = NoPairing /\ spl = NoSplit /\ cms = NoChain

NoGrid ==
    /\ db = [ nx |-> 1, ny |-> 1, per |-> 1 ]
    /\ gcache = << >>
    /\ glast = NoCall

NoPg ==
    /\ table = RowUniverse
    /\ wfilter = "default"
    /\ aborted = FALSE
    /\ views = << PgDatabase("con", << >>, << >>, OrderNone, None, "warn", 0) >>
    /\ last = NoLast
    /\ origin = Direct("warn")
    /\ broken = FALSE
    /\ imp = NoImport

\* the grid backend
InitGrid == GridInit /\ NoPg /\ NoMeasurements

NextGrid ==
    \/ \E a \in GridArgs : GridSearch(a)
    \/ \E k \in DOMAIN gcache : CallerMutates(k)

SpecGrid == InitGrid /\ [][NextGrid]_vars

\* the relational backend: building views and resolving identities
Init ==
    /\ InitPg /\ NoGrid /\ NoMeasurements
    /\ origin = Direct(views[1].on_duplicate)
    /\ broken = FALSE
    /\ imp = NoImport

Next ==
    \/ \E v \in DOMAIN views, a \in SearchInputs : PgSearch(v, a)
    \/ \E v \in DOMAIN views, d \in Dates, ci \in GetIdentities : PgGet(v, d, ci)
    \/ Resume

Spec == Init /\ [][Next]_vars

\* the relational backend: construction, counting, exclusion, identities of
\* unknown radio
InitQ == InitQuery /\ NoGrid /\ NoMeasurements

NextQuery ==
    \/ \E v \in DOMAIN views, a \in QuerySearchInputs : PgSearch(v, a)
    \/ \E v \in DOMAIN views : PgLen(v)
    \/ \E v \in DOMAIN views, d \in Dates, ci \in UnknownRadioIdentities \cup { LteCell } :
          PgGet(v, d, ci)
    \/ Resume

SpecQuery == InitQ /\ [][NextQuery]_vars

\* bulk import, and calls on the resolver before and after it, on a connection
\* that may be lost
InitImport == NoPg /\ NoGrid /\ NoMeasurements

ImportIdle == imp.status # "running"

NextImport ==
    \/ \E b \in Batches : ImportBegin(b)
    \/ ImportRow
    \/ ImportReturn
    \/ ConnectionLost
    \/ ImportIdle /\ \E d \in Dates, ci \in { LteCell, GsmCell } : PgGet(1, d, ci)
    \/ ImportIdle /\ PgLen(1)
    \/ ImportIdle /\ PgEnter(1)
    \/ ImportIdle /\ PgIter(1)
    \/ Resume

SpecImport == InitImport /\ [][NextImport]_vars

\* the relational backend: iterating views
InitIter == NoPg /\ NoGrid /\ NoMeasurements

NextIter ==
    \/ \E v \in DOMAIN views, a \in IterSearchInputs : PgSearch(v, a)
    \/ \E v \in DOMAIN views : PgEnter(v)
    \/ \E v \in DOMAIN views : PgExit(v)
    \/ \E v \in DOMAIN views : PgIter(v)
    \/ \E v \in DOMAIN views : PgNextRow(v)
    \/ Resume

SpecIter == InitIter /\ [][NextIter]_vars

\* the triage of measurement pairs
InitTriage == TriageInit /\ NoGrid /\ NoPg /\ prs = NoPairing /\ spl = NoSplit /\ cms = NoChain

NextTriage ==
    \/ \E ivs \in GivenIntervals : TriageGiven(ivs)
    \/ TriageSelectNext

SpecTriage == InitTriage /\ [][NextTriage]_vars

\* the intervals of the left timestamps of pairs, and the selection over them
InitExtract == ExtractInit /\ NoGrid /\ NoPg /\ prs = NoPairing /\ spl = NoSplit /\ cms = NoChain

NextExtract ==
    \/ \E start \in ExtractStarts, duration \in ExtractDurations :
          TriageExtract(start, duration)
    \/ TriageSelectNext

SpecExtract == InitExtract /\ [][NextExtract]_vars

\* the pairing of measurements
InitPairing == PairingInit /\ NoGrid /\ NoPg /\ tri = NoTriage /\ spl = NoSplit /\ cms = NoChain

NextPairing ==
    \/ \E within \in BOOLEAN : FromSequentialMeasurements(within)
    \/ PairSequentialMeasurements
    \/ PairingReturn

SpecPairing == InitPairing /\ [][NextPairing]_vars

\* the splits with background cells
InitSplit == SplitInit /\ NoGrid /\ NoPg /\ tri = NoTriage /\ prs = NoPairing /\ cms = NoChain

NextSplit == SplitNext

SpecSplit == InitSplit /\ [][NextSplit]_vars

\* chains of refinements of the cellscanner measurement set
InitCellscanner == NoGrid /\ NoPg /\ NoMeasurements

NextCellscanner == \E r \in Refinements : CellscannerRefine(r[1], r[2])

SpecCellscanner == InitCellscanner /\ [][NextCellscanner]_vars

====
